---- MODULE Spec2Model ----
(***************************************************************************)
(* Model of the OpenClaw Railway wrapper (src/src/server.js): the gateway  *)
(* supervisor (gatewayProc / gatewayStarting), the authenticated reverse   *)
(* proxy (HTTP catch-all and WebSocket upgrade), the GitHub login with its *)
(* sessions and allowlist, and the backup import with its tar filter.      *)
(*                                                                         *)
(* The wrapper is a single-threaded event loop.  One action of the model   *)
(* is one turn of that loop: the synchronous code of a handler between two *)
(* suspension points (await of a timer, of I/O, of the start promise).     *)
(***************************************************************************)
EXTENDS Integers, Sequences, FiniteSets, TLC

\* ---------------------------------------------------------------- bounds
MaxTasks == 2      \* request handlers in flight at the same time
MaxProcs == 2      \* gateway processes spawned in one behaviour
MaxSessions == 2   \* browser sessions (cookies) in the session store
MaxStates == 2     \* OAuth state values drawn in one behaviour
MaxPathLen == 4    \* characters of a tar entry path
MaxBodyBytes == 2  \* the 250 MB limit of an import body, in chunk units
MaxContent == 2    \* different contents a file under /data takes
TimeoutTicks == 2  \* the 20 s readiness timeout, in sleeps of 250 ms
MaxClock == 4      \* the time a behaviour covers, in the same unit
MaxDirLen == 2     \* characters of a directory name below /data or /home

Tasks == 1..MaxTasks
Procs == 1..MaxProcs

VARIABLES
  configured,      \* isConfigured(): the config file exists
  cfgContent,      \* the bytes of the config file, 0 if it does not exist
  authConfigured,  \* isAuthConfigured(): GITHUB_CLIENT_ID and _SECRET set
  dirsUnderData,   \* STATE_DIR and WORKSPACE_DIR are both under /data
  STATE_DIR,       \* const STATE_DIR, as a string of characters
  WORKSPACE_DIR,   \* const WORKSPACE_DIR, as a string of characters
  page,            \* the setup page open in a browser and its script
  history,         \* the history fields since and ran are recorded
  GITHUB_ALLOWED_USERS, \* the allowlist, lowercased; empty: any GitHub user
  gatewayProc,     \* let gatewayProc: 0 is null, else the child process
  gatewayStarting, \* let gatewayStarting: 0 is null, else the start promise
  starts,          \* number of start promises created so far
  spawned,         \* number of childProcess.spawn calls so far
  procs,           \* OS state of every gateway process
  toldOk,          \* history: a caller was told ok during the start in flight
  tasks,           \* the suspended request handlers
  resp,            \* what the handlers answered in the last turn
  sessions,        \* the session store of the application, by cookie
  nextState,       \* the next crypto.randomBytes OAuth state value
  lastGate,        \* the last verdict of the gate, and for which cookie
  callbacks,       \* the OAuth callbacks awaiting GitHub, and those accepted
  tarEntry,        \* the archive entry tar.x handled last
  tarWrote,        \* the file it wrote for that entry, << >> if none
  tarSkipped,      \* an entry of the archive was skipped
  dataFiles,       \* the files under /data: content by path, 0 if absent
  archive,         \* the entries of the backup downloaded last
  tarCwd,          \* the cwd of the last tar.c call, as a list of segments
  tarPaths,        \* the paths handed to it, << >> before the first call
  fsOp,            \* what touched /data last
  now,             \* Date.now(), in sleeps of 250 ms
  waitFor,         \* the start promise waitForGatewayReady runs for
  waitStart,       \* const start = Date.now() of waitForGatewayReady
  probe            \* its position: "none", "pending" (fetch), "sleeping"

vars == <<configured, cfgContent, authConfigured, dirsUnderData, GITHUB_ALLOWED_USERS,
          STATE_DIR, WORKSPACE_DIR, page, history, tarCwd, tarPaths,
          gatewayProc, gatewayStarting, starts, spawned, procs, toldOk,
          tasks, resp, sessions, nextState, lastGate, callbacks,
          tarEntry, tarWrote, tarSkipped, dataFiles, archive, fsOp,
          now, waitFor, waitStart, probe>>

startVars == <<gatewayProc, gatewayStarting, starts, spawned, procs, toldOk>>
supervisorVars == startVars
hostVars == <<authConfigured, dirsUnderData, GITHUB_ALLOWED_USERS,
              STATE_DIR, WORKSPACE_DIR, history>>
\* The deployment and the setup page in the browser, which no handler of
\* the server touches.
deployVars == <<hostVars, page>>
\* What every handler but those that write or remove the config file leaves
\* alone: the deployment and the bytes of the config file.
envVars == <<deployVars, cfgContent>>
authVars == <<sessions, nextState, lastGate, callbacks>>
tarVars == <<tarEntry, tarWrote, tarSkipped>>
tarcVars == <<tarCwd, tarPaths>>
backupVars == <<dataFiles, archive, fsOp, tarcVars>>
diskVars == <<tarVars, backupVars>>
readyVars == <<now, waitFor, waitStart, probe>>
proxyVars == <<configured, startVars, tasks, resp>>

\* ---------------------------------------------------------------- paths
\* A request path is the sequence of its segments: "/" is << >>,
\* "/setup/api/status" is <<"setup", "api", "status">>.
HttpPaths ==
  { << >>, <<"setupx">>, <<"setup">>, <<"setup", "x">>,
    <<"setup", "healthz">>, <<"setup", "api", "x">> }

\* The paths of the login flow that requireAuth names.
LoginPaths ==
  { <<"auth", "github">>, <<"auth", "github", "callback">>, <<"auth", "login">> }

Methods == {"GET", "POST"}

\* req.path === "/auth/github" || ... || req.path === "/setup/healthz"
IsPublicPath(path) ==
  path \in { <<"auth", "github">>, <<"auth", "github", "callback">>,
             <<"auth", "login">>, <<"setup", "healthz">> }

\* req.path.startsWith("/setup"): a character prefix, so "/setupx" matches
StartsWithSetup(path) ==
  Len(path) >= 1 /\ path[1] \in {"setup", "setupx"}

\* req.path.startsWith("/setup/api/")
StartsWithSetupApi(path) ==
  Len(path) >= 3 /\ path[1] = "setup" /\ path[2] = "api"

\* The routes registered before the catch-all that answer the request.
RouteMatches(method, path) ==
  \/ method = "GET" /\ path \in { <<"auth", "login">>, <<"auth", "github">>,
                                  <<"auth", "github", "callback">>,
                                  <<"setup", "healthz">>,
                                  <<"setup">>, <<"setup", "api", "status">> }

\* ---------------------------------------------------------------- tasks
\* bak: the bytes a config write copied to its backup file, 0 if it made no
\* copy (the backup files are written and never read).
\* A suspended handler: its route (kind), where it is suspended (pc) and
\* the locals it still holds.  json: the Accept header of a request that
\* requireAuth turned away asked for JSON (nothing reads the header later).
\* since: the number of processes spawned before the restartGateway() call
\* of the handler began, -1 if it made none.  ran: the handle named a
\* running process when the import began.  Both are history, kept in the
\* specifications whose Init sets `history` only.
IdleTask ==
  [kind |-> "idle", pc |-> "idle", path |-> << >>, user |-> FALSE,
   cfgOk |-> FALSE, authOk |-> FALSE, tmp |-> FALSE, total |-> 0,
   json |-> FALSE, cmd |-> "", bak |-> 0, since |-> -1, ran |-> FALSE]

\* The answer of a handler: out is what it did with the connection, ens the
\* result of its ensureGatewayRunning() call ("none": it made no call) and
\* during the start promise that was in flight when it made the call.
\* early: another caller of that same start had already been told ok.
Resp(rec, ens, during, early, out) ==
  [kind |-> rec.kind, path |-> rec.path, user |-> rec.user,
   cfgOk |-> rec.cfgOk, authOk |-> rec.authOk, tmp |-> rec.tmp,
   total |-> rec.total, json |-> rec.json, cmd |-> rec.cmd,
   bak |-> rec.bak, since |-> rec.since, ran |-> rec.ran, ens |-> ens, during |-> during, early |-> early, out |-> out]

\* A new request is served by the first free handler slot.
FreeSlot(t) ==
  /\ tasks[t].pc = "idle"
  /\ \A u \in 1..(t - 1) : tasks[u].pc # "idle"

NewTask(kind) == [IdleTask EXCEPT !.kind = kind]

\* In-flight handlers carry no identity of their own: of the tables that
\* differ only in the order of the slots, one stands for all.
Canon(f) ==
  CHOOSE g \in {[t \in Tasks |-> f[pi[t]]] : pi \in Permutations(Tasks)} : TRUE

\* A process is "unspawned", "alive", "terming" (alive, SIGTERM delivered),
\* "spawnerr" (the spawn failed, its error event is pending), "exited" (it
\* ended, its exit event is pending) or "gone" (its event was handled).
Alive == {p \in Procs : procs[p] \in {"alive", "terming"}}

\* ------------------------------------------------------- the supervisor
\* The configuration check passing without a config file.
isConfiguredAlways(cfg) == TRUE

\* function isConfigured(): fs.existsSync(configPath())
isConfigured(cfg) == cfg

\* ensureGatewayRunning, lines 229-230: the two early returns, evaluated on
\* the handle value gp and the configured flag cfg the caller sees.
EnsureFast(gp, cfg) ==
  IF ~isConfigured(cfg) THEN "notcfg"
  ELSE IF gp # 0 THEN "ok"
  ELSE "wait"

\* The single-flight test left out: every waiting caller starts anew.
NeedsNewStartAlways == TRUE

\* ensureGatewayRunning, line 231: if (!gatewayStarting)
NeedsNewStart == gatewayStarting = 0

\* startGateway, lines 160-161 and 205: return early, throw, or spawn.
StartGatewayOutcome(gp, cfg) ==
  IF gp # 0 THEN "skip"
  ELSE IF ~isConfigured(cfg) THEN "throw"
  ELSE "spawn"

\* The catch of the catch-all left out: a failed start is proxied all the same.
AfterEnsureHttpForwards(kind, r) ==
  CASE kind = "http"    -> "forwarded"
    [] kind = "upgrade" -> IF r = "fail" THEN "destroyed" ELSE "forwarded"
    [] kind = "start"   -> IF r = "fail" THEN "500"
                           ELSE IF r = "ok" THEN "started" ELSE "notStarted"
    [] OTHER            -> IF r = "fail" THEN "500" ELSE "ok"

\* The catch of the upgrade handler left out.
AfterEnsureUpgradeForwards(kind, r) ==
  CASE kind = "http"    -> IF r = "fail" THEN "503" ELSE "forwarded"
    [] kind = "upgrade" -> "forwarded"
    [] kind = "start"   -> IF r = "fail" THEN "500"
                           ELSE IF r = "ok" THEN "started" ELSE "notStarted"
    [] OTHER            -> IF r = "fail" THEN "500" ELSE "ok"

\* What a handler does with the result r of its ensureGatewayRunning() call
\* ("ok" and "notcfg" are returned values, "fail" is a thrown error).
AfterEnsure(kind, r) ==
  CASE kind = "http"    -> IF r = "fail" THEN "503" ELSE "forwarded"
    [] kind = "upgrade" -> IF r = "fail" THEN "destroyed" ELSE "forwarded"
    [] kind = "start"   -> IF r = "fail" THEN "500"
                           ELSE IF r = "ok" THEN "started" ELSE "notStarted"
    [] OTHER            -> IF r = "fail" THEN "500" ELSE "ok"

\* The handler of task t suspends at pc.
Suspend(t, rec, pc) ==
  /\ tasks' = Canon([tasks EXCEPT ![t] = [rec EXCEPT !.pc = pc]])
  /\ resp' = {}
  /\ UNCHANGED <<authVars, diskVars, readyVars>>

\* The handler of task t answers and ends.
Answer(t, rec, ens, during, out) ==
  /\ tasks' = Canon([tasks EXCEPT ![t] = IdleTask])
  /\ resp' = {Resp(rec, ens, during, FALSE, out)}
  /\ UNCHANGED <<authVars, diskVars, readyVars>>

\* The handler of task t ends without having called the supervisor.
Reply(t, rec, out) == Answer(t, rec, "none", 0, out)

\* async function ensureGatewayRunning(), called by task t whose record is
\* rec, in a turn where gatewayProc has the value gp and the flag is cfg.
\* The body runs synchronously up to "await gatewayStarting": startGateway()
\* has no await of its own, so the spawn happens in the caller's turn.
\* A call that returns at once lets the caller go on in the same turn.
CallEnsure(t, rec, gp, cfg) ==
  LET r == EnsureFast(gp, cfg) IN
  IF r # "wait" THEN
    /\ Answer(t, rec, r, gatewayStarting, AfterEnsure(rec.kind, r))
    /\ gatewayProc' = gp
    /\ toldOk' = (toldOk \/ (r = "ok" /\ gatewayStarting # 0))
    /\ UNCHANGED <<gatewayStarting, starts, spawned, procs>>
  ELSE IF ~NeedsNewStart THEN
    /\ Suspend(t, rec, "awaitStart")
    /\ gatewayProc' = gp
    /\ UNCHANGED <<gatewayStarting, starts, spawned, procs, toldOk>>
  ELSE
    /\ starts < MaxProcs
    /\ starts' = starts + 1
    /\ UNCHANGED toldOk
    /\ CASE StartGatewayOutcome(gp, cfg) = "spawn" ->
              /\ spawned < MaxProcs
              /\ spawned' = spawned + 1
              /\ \E oc \in {"alive", "spawnerr"} :
                     procs' = [procs EXCEPT ![spawned + 1] = oc]
              /\ gatewayProc' = spawned + 1
              /\ gatewayStarting' = starts + 1
              /\ Suspend(t, rec, "awaitStart")
         [] StartGatewayOutcome(gp, cfg) = "skip" ->
              /\ gatewayProc' = gp
              /\ gatewayStarting' = starts + 1
              /\ Suspend(t, rec, "awaitStart")
              /\ UNCHANGED <<spawned, procs>>
         [] OTHER ->
              \* startGateway threw: the promise rejects and .finally clears
              \* gatewayStarting before any other turn runs
              /\ gatewayProc' = gp
              /\ gatewayStarting' = 0
              /\ Answer(t, rec, "fail", starts + 1, AfterEnsure(rec.kind, "fail"))
              /\ UNCHANGED <<spawned, procs>>

\* The coordinator cleared on success only.
AfterSettleKeptOnFailure(r, gs) == IF r = "fail" THEN gs ELSE 0

\* .finally(() => { gatewayStarting = null; }), lines 239-241
AfterSettle(r, gs) == 0

\* The start promise settles; .finally clears gatewayStarting and every
\* handler awaiting the promise resumes in the same turn (microtasks).
Settle(r) ==
  /\ gatewayStarting # 0
  /\ gatewayStarting' = AfterSettle(r, gatewayStarting)
  /\ tasks' = Canon([t \in Tasks |->
                 IF tasks[t].pc = "awaitStart" THEN IdleTask ELSE tasks[t]])
  /\ resp' = {Resp(tasks[t], r, gatewayStarting, toldOk, AfterEnsure(tasks[t].kind, r)) :
                 t \in {u \in Tasks : tasks[u].pc = "awaitStart"}}
  /\ toldOk' = FALSE
  /\ UNCHANGED <<configured, envVars, gatewayProc, starts, spawned, procs,
                 authVars, diskVars>>

\* waitForGatewayReady returned true: a fetch got an HTTP response, so some
\* gateway process is listening on the internal port.
StartReady == Alive # {} /\ Settle("ok") /\ UNCHANGED readyVars

\* waitForGatewayReady returned false after 20 s: "did not become ready".
StartTimeout == Settle("fail") /\ UNCHANGED readyVars

\* ---------------------------------------------- waitForGatewayReady
\* The start promise has spawned the gateway: waitForGatewayReady takes its
\* start time and, the timeout not being over, sends the first fetch.
WaitBegins ==
  /\ gatewayStarting # 0
  /\ waitFor # gatewayStarting
  /\ waitFor' = gatewayStarting
  /\ waitStart' = now
  /\ probe' = "pending"
  /\ resp' = {}
  /\ UNCHANGED <<now, configured, envVars, startVars, tasks, authVars, diskVars>>

\* The wait of the start in flight is at position pos.
WaitAt(pos) == gatewayStarting # 0 /\ waitFor = gatewayStarting /\ probe = pos

\* while (Date.now() - start < timeoutMs)
WithinTimeout(t, start) == t - start < TimeoutTicks

\* fetch resolved with an HTTP response: return true.
ProbeAnswered ==
  /\ WaitAt("pending")
  /\ Alive # {}
  /\ probe' = "none"
  /\ Settle("ok")
  /\ UNCHANGED <<now, waitFor, waitStart>>

\* fetch rejected on every path (connection refused, or an error raised by
\* the HTTP client): await sleep(250) follows.
ProbeRefused ==
  /\ WaitAt("pending")
  /\ probe' = "sleeping"
  /\ resp' = {}
  /\ UNCHANGED <<now, waitFor, waitStart, configured, envVars, startVars,
                 tasks, authVars, diskVars>>

\* A gateway process accepted the connection of the fetch and answers
\* nothing: time passes, the fetch stays pending (it is given no timeout
\* or signal).
ProbeHangs ==
  /\ WaitAt("pending")
  /\ Alive # {}
  /\ now < MaxClock
  /\ now' = now + 1
  /\ resp' = {}
  /\ UNCHANGED <<waitFor, waitStart, probe, configured, envVars, startVars,
                 tasks, authVars, diskVars>>

\* sleep(250) is over: the loop condition is tested again; when it fails
\* waitForGatewayReady returns false and the start promise rejects.
ProbeSleepDone ==
  /\ WaitAt("sleeping")
  /\ now < MaxClock
  /\ now' = now + 1
  /\ UNCHANGED <<waitFor, waitStart>>
  /\ IF WithinTimeout(now', waitStart)
     THEN /\ probe' = "pending"
          /\ resp' = {}
          /\ UNCHANGED <<configured, envVars, startVars, tasks, authVars, diskVars>>
     ELSE /\ probe' = "none"
          /\ Settle("fail")

\* The signal left out.
KillNothing(gp) == procs' = procs

\* gatewayProc.kill("SIGTERM"): delivered if the process still runs
Kill(gp) ==
  procs' = [procs EXCEPT ![gp] = IF @ = "alive" THEN "terming" ELSE @]

\* async function restartGateway(), up to its first suspension.
RestartGateway(t, rec, cfg) ==
  LET call == [rec EXCEPT !.since = IF history THEN spawned ELSE -1] IN
  IF gatewayProc # 0 THEN
    /\ Kill(gatewayProc)
    /\ Suspend(t, call, "sleepRestart")
    /\ UNCHANGED <<gatewayProc, gatewayStarting, starts, spawned, toldOk>>
  ELSE
    CallEnsure(t, call, gatewayProc, cfg)

\* restartGateway() after "await sleep(750)": gatewayProc = null, then
\* return ensureGatewayRunning().
RestartSleepDone(t) ==
  /\ tasks[t].pc = "sleepRestart"
  /\ CallEnsure(t, tasks[t], 0, configured)
  /\ UNCHANGED <<configured, envVars>>

\* ------------------------------------------------- the gateway process
\* The operating system: a running gateway process ends (on its own, or
\* because of SIGTERM, at a time the wrapper does not control).
ProcDies(p) ==
  /\ p \in Alive
  /\ procs' = [procs EXCEPT ![p] = "exited"]
  /\ resp' = {}
  /\ UNCHANGED <<configured, envVars, gatewayProc, gatewayStarting, starts,
                 spawned, toldOk, tasks, authVars, diskVars, readyVars>>

\* The handle kept by the event handlers.
HandleAfterEventKept(gp) == gp

\* gatewayProc = null, lines 219 and 224
HandleAfterEvent(gp) == 0

\* gatewayProc.on("exit", ...): gatewayProc = null
OnProcExit(p) ==
  /\ procs[p] = "exited"
  /\ procs' = [procs EXCEPT ![p] = "gone"]
  /\ gatewayProc' = HandleAfterEvent(gatewayProc)
  /\ resp' = {}
  /\ UNCHANGED <<configured, envVars, gatewayStarting, starts, spawned,
                 toldOk, tasks, authVars, diskVars, readyVars>>

\* gatewayProc.on("error", ...): gatewayProc = null
OnProcError(p) ==
  /\ procs[p] = "spawnerr"
  /\ procs' = [procs EXCEPT ![p] = "gone"]
  /\ gatewayProc' = HandleAfterEvent(gatewayProc)
  /\ resp' = {}
  /\ UNCHANGED <<configured, envVars, gatewayStarting, starts, spawned,
                 toldOk, tasks, authVars, diskVars, readyVars>>

\* ------------------------------------------------------------ AuthGate
\* The gate closed when OAuth is not configured.
requireAuthClosed(path, acceptJson, authCfg, user) ==
  IF IsPublicPath(path) THEN "next"
  ELSE IF user THEN "next"
  ELSE IF StartsWithSetupApi(path) \/ acceptJson THEN "401"
  ELSE "login"

\* The test for API calls dropped: every request turned away is redirected.
requireAuthRedirectsAll(path, acceptJson, authCfg, user) ==
  IF IsPublicPath(path) THEN "next"
  ELSE IF ~authCfg THEN "next"
  ELSE IF user THEN "next"
  ELSE "login"

\* function requireAuth(req, res, next): "next", "401" or "login"
\* (redirect to /auth/login).  user is Boolean(req.session?.user).
requireAuth(path, acceptJson, authCfg, user) ==
  IF IsPublicPath(path) THEN "next"
  ELSE IF ~authCfg THEN "next"
  ELSE IF user THEN "next"
  ELSE IF StartsWithSetupApi(path) \/ acceptJson THEN "401"
  ELSE "login"

\* The upgrade path accepting whatever cookie it is shown.
UpgradeAuthenticatedAlways(inStore) == TRUE

\* server.on("upgrade"), lines 1272-1282: the verdict `authenticated`.
\* session({...}) is built here without a `store` option, so the cookie is
\* looked up in a MemoryStore created by this very call, which holds no
\* session: req.session is a freshly generated one and has no user, whatever
\* the application's own store holds for the cookie (inStore).
UpgradeAuthenticated(inStore) == FALSE

\* The path test of the redirect negated.
RedirectsToSetupInverted(cfg, path) == ~isConfigured(cfg) /\ StartsWithSetup(path)

\* catch-all, line 1224: redirect to /setup
RedirectsToSetup(cfg, path) == ~isConfigured(cfg) /\ ~StartsWithSetup(path)

\* A session with a user exists only when OAuth is configured: /auth/github
\* stores no oauthState otherwise, and the callback then rejects.
UserPossible(user) == user => authConfigured

\* A handler that leaves the supervisor alone.
NoSupervisor(t, rec, out) == Reply(t, rec, out) /\ UNCHANGED supervisorVars

\* ------------------------------------------------------------ sessions
Cookies == 1..MaxSessions

\* GitHub logins as GitHub reports them (user.login keeps its case).
Logins == {"alice", "Alice", "mallory"}

\* (user.login || "").toLowerCase()
ToLower(login) == IF login = "Alice" THEN "alice" ELSE login

\* A session: req.session.user (its login, "" if unset), req.session
\* .oauthState (0 if unset) and, as history, the login GitHub reported at
\* the last callback that got as far as the user lookup ("" if none).
NoSession == [user |-> "", oauthState |-> 0, github |-> ""]

NoGate == [kind |-> "none", cookie |-> 0, path |-> << >>, out |-> "none"]

\* Boolean(req.session?.user) for the request that carries cookie c
\* (0: the request carries no session cookie).
HasUser(c) == c # 0 /\ sessions[c].user # ""

\* The allowlist test of the callback dropped: every GitHub user gets in.
AllowlistDeniesNobody(login) == FALSE

\* GET /auth/github/callback, lines 441-444: the allowlist check
AllowlistDenies(login) ==
  /\ GITHUB_ALLOWED_USERS # {}
  /\ ToLower(login) \notin GITHUB_ALLOWED_USERS

\* GET /auth/github: store a fresh state in the session and redirect.
AuthGithub(c) ==
  /\ nextState <= MaxStates
  /\ IF ~authConfigured
     THEN UNCHANGED <<sessions, nextState>>
     ELSE /\ sessions' = [sessions EXCEPT ![c].oauthState = nextState]
          /\ nextState' = nextState + 1
  /\ lastGate' = NoGate
  /\ UNCHANGED <<envVars, proxyVars, diskVars, readyVars, callbacks>>

\* GET /auth/github/callback with query (code, state); gh is what GitHub
\* answers: "tokenError" (the exchange fails or yields no access_token) or
\* the login of the user.  The handler awaits GitHub twice, but it works on
\* the session object of its own request, which is stored when the
\* response ends: the awaits expose no intermediate state to other requests.
\* This is the callback with no other request of the session between its
\* start and its end; AuthCallbackBegin and AuthCallbackEnd are the two
\* halves with other requests in between.
AuthCallback(c, code, state, gh) ==
  /\ lastGate' = NoGate
  /\ UNCHANGED <<envVars, proxyVars, diskVars, readyVars, nextState, callbacks>>
  /\ IF ~code \/ state = 0 \/ state # sessions[c].oauthState
     THEN UNCHANGED sessions
     ELSE IF gh = "tokenError"
     THEN sessions' = [sessions EXCEPT ![c].oauthState = 0]
     ELSE IF AllowlistDenies(gh)
     THEN sessions' = [sessions EXCEPT ![c].oauthState = 0, ![c].github = gh]
     ELSE sessions' = [sessions EXCEPT ![c].oauthState = 0, ![c].github = gh,
                                       ![c].user = gh]

\* No callback in flight, none accepted so far.  inflight: the callbacks
\* that await GitHub, each with the cookie and the state of its request and
\* its own session object; accepted: the (cookie, state) pairs that passed
\* the state test so far (history).
NoCallbacks == [inflight |-> << >>, accepted |-> {}]

\* The sequence without its element k.
RemoveAt(seq, k) == SubSeq(seq, 1, k - 1) \o SubSeq(seq, k + 1, Len(seq))

\* line 416: !state || state !== req.session.oauthState, negated
StateMatches(state, pending) == state # 0 /\ state = pending

\* GET /auth/github/callback of a request that carries cookie c, up to its
\* first await (lines 413-422).  The session middleware has loaded the
\* session of c from the store into an object of this request; the state is
\* tested and deleted in that object.  Nothing is written to the store
\* before the response ends; a rejected callback leaves the session
\* unmodified and stores nothing.
AuthCallbackBegin(c, code, state) ==
  /\ Len(callbacks.inflight) < MaxTasks
  /\ lastGate' = NoGate
  /\ UNCHANGED <<envVars, proxyVars, diskVars, readyVars, nextState, sessions>>
  /\ IF ~code \/ ~StateMatches(state, sessions[c].oauthState)
     THEN UNCHANGED callbacks
     ELSE callbacks' =
            [inflight |-> Append(callbacks.inflight,
                                 [cookie |-> c, state |-> state,
                                  sess |-> [sessions[c] EXCEPT !.oauthState = 0]]),
             accepted |-> callbacks.accepted \cup {<<c, state>>}]

\* The rest of the callback (lines 424-465): GitHub has answered gh.  The
\* response ends on every path, and the session object of the request,
\* modified by the delete, replaces what the store holds for the cookie.
AuthCallbackEnd(k, gh) ==
  /\ k \in 1..Len(callbacks.inflight)
  /\ LET cb == callbacks.inflight[k]
         own == IF gh = "tokenError" THEN cb.sess
                ELSE IF AllowlistDenies(gh) THEN [cb.sess EXCEPT !.github = gh]
                ELSE [cb.sess EXCEPT !.github = gh, !.user = gh]
     IN /\ sessions' = [sessions EXCEPT ![cb.cookie] = own]
        /\ callbacks' = [callbacks EXCEPT !.inflight = RemoveAt(@, k)]
  /\ lastGate' = NoGate
  /\ UNCHANGED <<envVars, proxyVars, diskVars, readyVars, nextState>>

\* GET /auth/logout: req.session.destroy
AuthLogout(c) ==
  /\ sessions[c] # NoSession
  /\ sessions' = [sessions EXCEPT ![c] = NoSession]
  /\ lastGate' = NoGate
  /\ UNCHANGED <<envVars, proxyVars, diskVars, readyVars, nextState, callbacks>>

\* app.use(requireAuth) applied to a request that carries cookie c.
GateHttp(c, path, acceptJson) ==
  /\ lastGate' = [kind |-> "http", cookie |-> c, path |-> path,
              out |-> requireAuth(path, acceptJson, authConfigured, HasUser(c))]
  /\ UNCHANGED <<envVars, proxyVars, diskVars, readyVars, sessions, nextState,
                 callbacks>>

\* The verdict of the upgrade path, lines 1271-1287, for cookie c.
UpgradeVerdict(c) ==
  IF ~authConfigured THEN "next"
  ELSE IF UpgradeAuthenticated(HasUser(c)) THEN "next"
  ELSE "destroyed"

\* server.on("upgrade") applied to a request that carries cookie c.
GateUpgrade(c) ==
  /\ lastGate' = [kind |-> "upgrade", cookie |-> c, path |-> << >>,
              out |-> UpgradeVerdict(c)]
  /\ UNCHANGED <<envVars, proxyVars, diskVars, readyVars, sessions, nextState,
                 callbacks>>

\* ------------------------------------------------------- ReverseProxy
\* An HTTP request: requireAuth, the routes, then the catch-all
\* app.use(async (req, res) => ...) of lines 1222-1237.
HttpRequest(t, method, path, acceptJson, user) ==
  /\ FreeSlot(t)
  /\ UserPossible(user)
  /\ UNCHANGED <<configured, envVars>>
  /\ LET gate == requireAuth(path, acceptJson, authConfigured, user)
         rec  == [NewTask("http") EXCEPT !.path = path, !.user = user,
                                         !.json = (acceptJson /\ gate # "next"),
                                         !.authOk = (gate = "next"),
                                         !.cfgOk = isConfigured(configured)]
     IN CASE gate # "next" -> NoSupervisor(t, rec, gate)
          [] gate = "next" /\ RouteMatches(method, path) -> NoSupervisor(t, rec, "route")
          [] OTHER ->
               IF RedirectsToSetup(configured, path)
               THEN NoSupervisor(t, rec, "redirectSetup")
               ELSE IF isConfigured(configured)
               THEN CallEnsure(t, rec, gatewayProc, configured)
               ELSE NoSupervisor(t, rec, "forwarded")     \* proxy.web, line 1236

\* server.on("upgrade", ...) up to the session lookup.
UpgradeRequest(t, user) ==
  /\ FreeSlot(t)
  /\ UserPossible(user)
  /\ UNCHANGED <<configured, envVars>>
  /\ LET rec == [NewTask("upgrade") EXCEPT !.user = user,
                                            !.cfgOk = isConfigured(configured)]
     IN IF ~isConfigured(configured) THEN NoSupervisor(t, rec, "destroyed")
        ELSE IF authConfigured
        THEN Suspend(t, rec, "awaitSession") /\ UNCHANGED supervisorVars
        ELSE CallEnsure(t, [rec EXCEPT !.authOk = TRUE], gatewayProc, configured)

\* server.on("upgrade", ...) once the session middleware called back.
UpgradeSessionParsed(t) ==
  /\ tasks[t].pc = "awaitSession"
  /\ UNCHANGED <<configured, envVars>>
  /\ IF ~UpgradeAuthenticated(tasks[t].user)
     THEN NoSupervisor(t, tasks[t], "destroyed")
     ELSE CallEnsure(t, [tasks[t] EXCEPT !.authOk = TRUE], gatewayProc, configured)

\* ------------------------------------------------------ setup surface
ALLOWED_CONSOLE_COMMANDS ==
  {"gateway.restart", "gateway.stop", "gateway.start", "openclaw.version",
   "openclaw.status", "openclaw.health", "openclaw.doctor",
   "openclaw.logs.tail", "openclaw.config.get"}

\* payload.cmd as it is sent: names of the list, one of them also with
\* white space around it, the empty name and a name that is not listed.
ConsoleCmds == {"gateway.restart", "gateway.stop", " gateway.stop ",
                "gateway.start", "openclaw.status", "", "rm -rf"}

\* String(payload.cmd || "").trim()
Trim(raw) == IF raw = " gateway.stop " THEN "gateway.stop" ELSE raw

\* The test of the allowlist left out.
CommandAllowedAlways(cmd) == TRUE

\* ALLOWED_CONSOLE_COMMANDS.has(cmd), line 958
CommandAllowed(cmd) == cmd \in ALLOWED_CONSOLE_COMMANDS

\* The routes under /setup/api/ sit behind requireAuth.
SetupGate(user) == requireAuth(<<"setup", "api", "x">>, FALSE, authConfigured, user)

\* inline stop of lines 967-971 and 1170-1174, up to "await sleep(750)"
KillAndSleep(t, rec) ==
  /\ Kill(gatewayProc)
  /\ Suspend(t, rec, "sleepStop")
  /\ UNCHANGED <<gatewayProc, gatewayStarting, starts, spawned, toldOk>>

\* POST /setup/api/console/run
ConsoleRun(t, raw, user) ==
  /\ FreeSlot(t)
  /\ UserPossible(user)
  /\ UNCHANGED <<configured, envVars>>
  /\ LET gate == SetupGate(user)
         cmd  == Trim(raw)
         kind == CASE cmd = "gateway.restart" -> "restart"
                   [] cmd = "gateway.stop"    -> "stop"
                   [] cmd = "gateway.start"   -> "start"
                   [] OTHER                   -> "console"
         rec  == [NewTask(kind) EXCEPT !.user = user, !.authOk = (gate = "next"),
                                       !.cmd = cmd]
     IN CASE gate # "next" -> NoSupervisor(t, rec, gate)
          [] gate = "next" /\ ~CommandAllowed(cmd) ->
               NoSupervisor(t, rec, "notAllowed")
          [] gate = "next" /\ cmd = "gateway.restart" ->
               RestartGateway(t, rec, configured)
          [] gate = "next" /\ cmd = "gateway.stop" ->
               IF gatewayProc # 0 THEN KillAndSleep(t, rec)
               ELSE NoSupervisor(t, rec, "stopped")
          [] gate = "next" /\ cmd = "gateway.start" ->
               CallEnsure(t, rec, gatewayProc, configured)
          [] OTHER -> NoSupervisor(t, rec, "cli")

\* "await sleep(750)" of an inline stop is over: gatewayProc = null
StopSleepDone(t) ==
  /\ tasks[t].pc = "sleepStop"
  /\ gatewayProc' = 0
  /\ IF tasks[t].kind = "import"
     THEN Suspend(t, tasks[t], "readBody")
     ELSE Reply(t, tasks[t], "stopped")
  /\ UNCHANGED <<configured, envVars, gatewayStarting, starts, spawned, procs,
                 toldOk>>

\* The copy taken once the new bytes are in the file.
BackupCopyOfNew(exists, prev, new) == IF exists THEN new ELSE 0

\* if (fs.existsSync(p)) fs.copyFileSync(p, backupPath), lines 1034-1037:
\* the bytes of the backup, taken when the file holds prev and new is still
\* to be written.
BackupCopy(exists, prev, new) == IF exists THEN prev ELSE 0

\* POST /setup/api/config/raw with a body of over 500,000 characters
\* (tooLarge) or with the bytes content.
ConfigWrite(t, tooLarge, content, user) ==
  /\ FreeSlot(t)
  /\ UserPossible(user)
  /\ UNCHANGED deployVars
  /\ LET gate == SetupGate(user)
         rec  == [NewTask("configWrite") EXCEPT !.user = user, !.authOk = (gate = "next")]
     IN IF gate # "next"
        THEN NoSupervisor(t, rec, gate) /\ UNCHANGED <<configured, cfgContent>>
        ELSE IF tooLarge
        THEN NoSupervisor(t, rec, "413") /\ UNCHANGED <<configured, cfgContent>>
        ELSE LET copied == BackupCopy(isConfigured(configured), cfgContent, content)
             IN /\ configured' = TRUE           \* fs.writeFileSync(p, content)
                /\ cfgContent' = content
                /\ RestartGateway(t, [rec EXCEPT !.bak = copied], TRUE)

\* The removal left out.
ConfigAfterResetKept(content) == content

\* fs.rmSync(configPath(), { force: true }): the bytes of the config file
\* afterwards (0: there is no file), whatever they were.
ConfigAfterReset(content) == 0

\* POST /setup/api/reset: fs.rmSync(configPath(), { force: true })
Reset(t, user) ==
  /\ FreeSlot(t)
  /\ UserPossible(user)
  /\ UNCHANGED deployVars
  /\ LET gate == SetupGate(user)
         rec  == [NewTask("reset") EXCEPT !.user = user, !.authOk = (gate = "next")]
     IN IF gate # "next"
        THEN NoSupervisor(t, rec, gate) /\ UNCHANGED <<configured, cfgContent>>
        ELSE /\ NoSupervisor(t, rec, "ok")
             /\ cfgContent' = ConfigAfterReset(cfgContent)
             /\ configured' = (cfgContent' # 0)

\* The test of line 785 left out: the onboarding runs again.
RunsOnboardAlways(cfg) == TRUE

\* POST /setup/api/run, lines 785-788: the onboarding is run only when
\* there is no config file.
RunsOnboard(cfg) == ~isConfigured(cfg)

\* POST /setup/api/run up to its first suspension.
SetupRun(t, user) ==
  /\ FreeSlot(t)
  /\ UserPossible(user)
  /\ UNCHANGED <<configured, envVars>>
  /\ LET gate == SetupGate(user)
         rec  == [NewTask("setupRun") EXCEPT !.user = user, !.authOk = (gate = "next"),
                                             !.cfgOk = isConfigured(configured)]
     IN IF gate # "next" THEN NoSupervisor(t, rec, gate)
        ELSE IF ~RunsOnboard(configured)
        THEN CallEnsure(t, rec, gatewayProc, configured)
        ELSE Suspend(t, rec, "onboard") /\ UNCHANGED supervisorVars

\* runCmd(openclaw onboard ...) settled with exit code 0 (code0) or not;
\* the command has left the config file with the bytes c, or as it was
\* (c = 0).  ok = onboard.code === 0 && isConfigured().
OnboardDone(t, code0, c) ==
  /\ tasks[t].pc = "onboard"
  /\ cfgContent' = (IF c # 0 THEN c ELSE cfgContent)
  /\ configured' = (cfgContent' # 0)
  /\ UNCHANGED deployVars
  /\ IF code0 /\ isConfigured(configured')
     THEN Suspend(t, tasks[t], "configSet") /\ UNCHANGED supervisorVars
     ELSE NoSupervisor(t, tasks[t], "500")

\* The runCmd(openclaw config set ...) calls of lines 805-896 settled, the
\* file left with the bytes c or as it was: await restartGateway().
ConfigSetDone(t, c) ==
  /\ tasks[t].pc = "configSet"
  /\ cfgContent' = (IF c # 0 /\ configured THEN c ELSE cfgContent)
  /\ UNCHANGED <<configured, deployVars>>
  /\ RestartGateway(t, tasks[t], configured)

\* ------------------------------------------------------- setup page
\* The children of div.wrap and of the provider card in the markup of
\* GET /setup, in document order.
StaticTree ==
  [wrap |-> <<"statusBar", "providerCard", "channelsCard", "runCard",
              "toggleAdvanced", "advancedSection">>,
   providerCard |-> <<"authChoice", "authSecret", "modelLabel", "model",
                      "modelHint", "flow">>]

Containers == DOMAIN StaticTree

\* The options of select#authChoice and the keys of providersWithModel
AuthChoices == {"openrouter-api-key", "openai-api-key", "apiKey",
                "gemini-api-key", "ai-gateway-api-key", "moonshot-api-key",
                "minimax-api", "claude-cli", "codex-cli"}
providersWithModel == {"openrouter-api-key", "openai-api-key",
                       "gemini-api-key", "ai-gateway-api-key", "apiKey"}

\* The page as served: the script has not run, the first option is
\* selected, the model field shows, both sections are closed.
\* calls: the insertBefore calls the script has made, in order.
StaticPage ==
  [loaded |-> FALSE, error |-> FALSE, calls |-> << >>,
   choice |-> "openrouter-api-key", modelShown |-> TRUE,
   slackOpen |-> FALSE, advancedOpen |-> FALSE]

Children(tree, c) == {tree[c][i] : i \in 1..Len(tree[c])}

\* el.parentNode
ParentNode(tree, el) ==
  IF \E c \in Containers : el \in Children(tree, c)
  THEN CHOOSE c \in Containers : el \in Children(tree, c)
  ELSE "none"

RECURSIVE Without(_, _)
Without(seq, el) ==
  IF seq = << >> THEN << >>
  ELSE IF Head(seq) = el THEN Without(Tail(seq), el)
  ELSE <<Head(seq)>> \o Without(Tail(seq), el)

RECURSIVE PutBefore(_, _, _)
PutBefore(seq, el, ref) ==
  IF seq = << >> THEN << >>
  ELSE IF Head(seq) = ref THEN <<el>> \o seq
  ELSE <<Head(seq)>> \o PutBefore(Tail(seq), el, ref)

\* parent.insertBefore(node, ref) of the DOM: NotFoundError (ok FALSE)
\* unless ref is a child of parent; else node leaves where it was and is
\* put before ref.
InsertBefore(tree, parent, node, ref) ==
  IF parent \notin Containers \/ ref \notin Children(tree, parent)
  THEN [ok |-> FALSE, tree |-> tree]
  ELSE LET out == [c \in Containers |-> Without(tree[c], node)]
       IN [ok |-> TRUE,
           tree |-> [out EXCEPT ![parent] = PutBefore(out[parent], node, ref)]]

\* The insertion the regression test forbids: the toggle put before the
\* parent of the provider select, in that parent.
ToggleInsertionBeforeParent ==
  << [parent |-> "providerCard", node |-> "toggleAdvanced",
      ref |-> "providerCard"] >>

\* The insertBefore calls setup-app.js makes for the toggle while it
\* loads: none, button#toggleAdvanced is part of the markup.
ToggleInsertion == << >>

\* The tree after the calls, up to the first call that throws
RECURSIVE ApplyInsertions(_, _)
ApplyInsertions(tree, calls) ==
  IF calls = << >> THEN [ok |-> TRUE, tree |-> tree]
  ELSE LET r == InsertBefore(tree, Head(calls).parent, Head(calls).node,
                             Head(calls).ref)
       IN IF r.ok THEN ApplyInsertions(r.tree, Tail(calls)) ELSE r

\* The tree of the page: the markup after the calls the script has made.
PageTree == ApplyInsertions(StaticTree, page.calls).tree

\* The labels of the two toggles, as their handlers set them.
SlackText(open) == IF open THEN "- Slack" ELSE "+ Slack"
AdvancedText(open) == IF open THEN "Hide advanced tools" ELSE "Advanced tools"

\* The script of /setup/app.js runs: the elements are looked up, the
\* handlers attached and updateModelVisibility() called.  An exception
\* ends the script before the handlers are attached.
ScriptLoad ==
  /\ ~page.loaded /\ ~page.error
  /\ LET r == ApplyInsertions(StaticTree, ToggleInsertion)
     IN page' = IF ~r.ok
                THEN [page EXCEPT !.error = TRUE, !.calls = ToggleInsertion]
                ELSE [page EXCEPT !.loaded = TRUE, !.calls = ToggleInsertion,
                                  !.modelShown = (page.choice \in providersWithModel)]
  /\ UNCHANGED <<configured, cfgContent, hostVars, proxyVars, authVars, diskVars, readyVars>>

\* The user picks a provider: authChoiceEl.onchange = updateModelVisibility
AuthChoiceChange(choice) ==
  /\ choice # page.choice
  /\ page' = [page EXCEPT !.choice = choice,
                          !.modelShown = IF page.loaded
                                         THEN choice \in providersWithModel
                                         ELSE page.modelShown]
  /\ UNCHANGED <<configured, cfgContent, hostVars, proxyVars, authVars, diskVars, readyVars>>

\* toggleSlack.onclick
ToggleSlackClick ==
  /\ page.loaded
  /\ page' = [page EXCEPT !.slackOpen = ~page.slackOpen]
  /\ UNCHANGED <<configured, cfgContent, hostVars, proxyVars, authVars, diskVars, readyVars>>

\* toggleAdvanced.onclick
ToggleAdvancedClick ==
  /\ page.loaded
  /\ page' = [page EXCEPT !.advancedOpen = ~page.advancedOpen]
  /\ UNCHANGED <<configured, cfgContent, hostVars, proxyVars, authVars, diskVars, readyVars>>

\* ------------------------------------------------------- BackupManager
\* The test of the directories left out.
ImportRootOkAlways == TRUE

\* function isUnderDir(p, root), applied to STATE_DIR and WORKSPACE_DIR
ImportRootOk == dirsUnderData

\* Entry paths of an archive, as strings of characters: separators, a
\* dot, a colon and a letter.
PathChars == {"/", "\\", ".", ":", "C"}

TarPaths == UNION {[1..n -> PathChars] : n \in 1..MaxPathLen}

\* p.split("/")
RECURSIVE SplitSlash(_)
SplitSlash(p) ==
  IF p = << >> THEN << << >> >>
  ELSE LET rest == SplitSlash(Tail(p))
       IN IF Head(p) = "/" THEN << << >> >> \o rest
          ELSE << <<Head(p)>> \o Head(rest) >> \o Tail(rest)

\* The test for ".." segments dropped.
HasDotDotNever(p) == FALSE

\* p.split("/").includes("..")
HasDotDot(p) ==
  LET parts == SplitSlash(p)
  IN \E i \in 1..Len(parts) : parts[i] = <<".", ".">>

\* /^[A-Za-z]:[\\/]/.test(p)
DriveRegex(p) ==
  /\ Len(p) >= 3
  /\ p[1] = "C"
  /\ p[2] = ":"
  /\ p[3] \in {"\\", "/"}

\* function looksSafeTarPath(p)
looksSafeTarPath(p) ==
  IF p = << >> THEN FALSE
  ELSE IF p[1] = "/" \/ p[1] = "\\" THEN FALSE
  ELSE IF DriveRegex(p) THEN FALSE
  ELSE IF HasDotDot(p) THEN FALSE
  ELSE TRUE

\* The directory a list of segments names, from dir: "" and "." stay, ".."
\* goes up (not above the root), a name goes down.
RECURSIVE Walk(_, _)
Walk(dir, parts) ==
  IF parts = << >> THEN dir
  ELSE LET seg == Head(parts)
           nxt == IF seg = << >> \/ seg = <<".">> THEN dir
                  ELSE IF seg = <<".", ".">>
                       THEN (IF dir = << >> THEN dir ELSE SubSeq(dir, 1, Len(dir) - 1))
                       ELSE Append(dir, seg)
       IN Walk(nxt, Tail(parts))

\* const dataRoot = "/data", as a list of segments
dataRoot == << <<"data">> >>

\* Where tar.x({ cwd: dataRoot }) puts the entry p: path.resolve(cwd, p)
ExtractTarget(p) ==
  IF p[1] = "/" THEN Walk(<< >>, SplitSlash(p))
  ELSE Walk(dataRoot, SplitSlash(p))

\* tar.x reads the next entry p of the archive: the filter decides whether
\* it is extracted; a skipped entry does not end the extraction.
TarEntry(p) ==
  /\ tarEntry' = p
  /\ IF looksSafeTarPath(p)
     THEN tarWrote' = ExtractTarget(p) /\ tarSkipped' = tarSkipped
     ELSE tarWrote' = << >> /\ tarSkipped' = TRUE
  /\ UNCHANGED <<envVars, proxyVars, authVars, backupVars, readyVars>>

\* tar.x is called for the next uploaded archive.
TarOpen ==
  /\ tarEntry # << >>
  /\ tarEntry' = << >>
  /\ tarWrote' = << >>
  /\ tarSkipped' = FALSE
  /\ UNCHANGED <<envVars, proxyVars, authVars, backupVars, readyVars>>

\* ------------------------------------------------- export and restore
\* Files under /data, by their path relative to it: in the state directory
\* ".C", in the workspace directory "C", and one in neither.
FilePaths ==
  { <<".", "C", "/", "C">>, <<"C", "/", "C">>, <<"C", "/", ".", "C">>,
    <<"C", ".">> }

Contents == 1..MaxContent

\* The directories of the Railway template and of a deployment without the
\* volume: /data/.C, /data/C and /home/.C.
VolumeStateDir == <<"/", "data", "/", ".", "C">>
VolumeWorkspaceDir == <<"/", "data", "/", "C">>
HomeStateDir == <<"/", "home", "/", ".", "C">>

\* The values OPENCLAW_STATE_DIR and OPENCLAW_WORKSPACE_DIR take: a
\* directory named by up to MaxDirLen characters below /data or /home.
DirNames == UNION {[1..n -> PathChars] : n \in 0..MaxDirLen}
Dirs == { <<"/", b, "/">> \o d : b \in {"data", "home"}, d \in DirNames }

\* path.resolve(dir) of an absolute dir, as a list of segments
Resolve(dir) == Walk(<< >>, SplitSlash(dir))

\* The string of a resolved path: "/" and the segments joined by "/"
RECURSIVE JoinSlash(_)
JoinSlash(segs) ==
  IF segs = << >> THEN << >>
  ELSE IF Len(segs) = 1 THEN segs[1]
  ELSE segs[1] \o <<"/">> \o JoinSlash(Tail(segs))

AbsString(segs) == <<"/">> \o JoinSlash(segs)

\* const underData = (p) => p === dataRoot || p.startsWith(dataRoot + path.sep)
underData(abs) == Len(abs) >= 1 /\ abs[1] = dataRoot[1]

\* Both directories are under /data.
BothUnderData(stateDir, workspaceDir) ==
  underData(Resolve(stateDir)) /\ underData(Resolve(workspaceDir))

\* p.replace(/^\//, "")
StripLeadingSlash(str) ==
  IF str # << >> /\ str[1] = "/" THEN Tail(str) ELSE str

\* path.relative(dataRoot, abs) || "." for abs under /data
RelativeToData(abs) ==
  LET rel == JoinSlash(SubSeq(abs, 2, Len(abs)))
  IN IF rel = << >> THEN <<".">> ELSE rel

\* let cwd of the export handler
ExportCwd(stateDir, workspaceDir) ==
  IF BothUnderData(stateDir, workspaceDir) THEN dataRoot ELSE << >>

\* let paths of the export handler
ExportPaths(stateDir, workspaceDir) ==
  LET stateAbs == Resolve(stateDir)
      workspaceAbs == Resolve(workspaceDir)
  IN IF BothUnderData(stateDir, workspaceDir)
     THEN <<RelativeToData(stateAbs), RelativeToData(workspaceAbs)>>
     ELSE <<StripLeadingSlash(AbsString(stateAbs)),
            StripLeadingSlash(AbsString(workspaceAbs))>>

\* path.relative(dataRoot, stateAbs) and path.relative(dataRoot, workspaceAbs)
ExportRoots == { <<".", "C">>, <<"C">> }

\* The file p lies in one of the directories handed to tar.c.
UnderExportRoots(p) == SplitSlash(p)[1] \in ExportRoots

\* tar.c({ cwd: dataRoot }, paths): one entry for every file in the two
\* directories, with its path relative to /data and its bytes.
ExportArchive(files) ==
  { [path |-> p, data |-> files[p]] :
      p \in {q \in FilePaths : files[q] # 0 /\ UnderExportRoots(q)} }

\* The restore wiping /data before it extracts.
KeptByImportNone(files, p) == 0

\* The import deletes nothing: a file no entry overwrites stays as it is.
KeptByImport(files, p) == files[p]

\* tar.x({ cwd: dataRoot, filter }) over the entries of a: every entry the
\* filter lets through is written at its target; other files are kept.
ExtractInto(files, a) ==
  [p \in FilePaths |->
     LET hits == {e \in a : looksSafeTarPath(e.path)
                            /\ ExtractTarget(e.path) = ExtractTarget(p)}
     IN IF hits # {} THEN (CHOOSE e \in hits : TRUE).data
        ELSE KeptByImport(files, p)]

\* The gateway or the user writes a file under /data.
FileWrite(p, c) ==
  /\ dataFiles[p] # c
  /\ dataFiles' = [dataFiles EXCEPT ![p] = c]
  /\ fsOp' = "write"
  /\ UNCHANGED <<archive, tarcVars, envVars, proxyVars, authVars, tarVars, readyVars>>

\* The gateway or the user deletes a file under /data.
FileDelete(p) ==
  /\ dataFiles[p] # 0
  /\ dataFiles' = [dataFiles EXCEPT ![p] = 0]
  /\ fsOp' = "delete"
  /\ UNCHANGED <<archive, tarcVars, envVars, proxyVars, authVars, tarVars, readyVars>>

\* GET /setup/export with both directories under /data: the archive is
\* streamed to the client.
Export ==
  /\ dirsUnderData
  /\ tarCwd' = ExportCwd(STATE_DIR, WORKSPACE_DIR)
  /\ tarPaths' = ExportPaths(STATE_DIR, WORKSPACE_DIR)
  /\ archive' = ExportArchive(dataFiles)
  /\ fsOp' = "export"
  /\ UNCHANGED <<dataFiles, envVars, proxyVars, authVars, tarVars, readyVars>>

\* GET /setup/export in any deployment, up to its call of tar.c
ExportCall ==
  /\ tarCwd' = ExportCwd(STATE_DIR, WORKSPACE_DIR)
  /\ tarPaths' = ExportPaths(STATE_DIR, WORKSPACE_DIR)
  /\ fsOp' = "export"
  /\ UNCHANGED <<dataFiles, archive, envVars, proxyVars, authVars, tarVars, readyVars>>

\* POST /setup/import of the archive downloaded last, as far as /data is
\* concerned: refused unless both directories are under /data, else tar.x.
ImportArchive ==
  /\ archive # {}
  /\ dataFiles' = IF ImportRootOk THEN ExtractInto(dataFiles, archive)
                  ELSE dataFiles
  /\ fsOp' = "import"
  /\ UNCHANGED <<archive, tarcVars, envVars, proxyVars, authVars, tarVars, readyVars>>

\* POST /setup/import up to its first suspension
ImportRequest(t, user) ==
  /\ FreeSlot(t)
  /\ UserPossible(user)
  /\ UNCHANGED <<configured, envVars>>
  /\ LET gate == requireAuth(<<"setup", "import">>, FALSE, authConfigured, user)
         rec  == [NewTask("import") EXCEPT !.user = user, !.authOk = (gate = "next"),
                    !.ran = (history /\ gate = "next" /\ gatewayProc \in Alive)]
     IN IF gate # "next" THEN NoSupervisor(t, rec, gate)
        ELSE IF ~ImportRootOk THEN NoSupervisor(t, rec, "400")
        ELSE IF gatewayProc # 0 THEN KillAndSleep(t, rec)
        ELSE Suspend(t, rec, "readBody") /\ UNCHANGED supervisorVars

\* readBodyBuffer(req, 250 MB) settled: too large (rejects), empty, or a
\* body that is written to the temporary file before tar.x starts.
ImportBodyRead(t, rec, body) ==
  /\ tasks[t].pc = "readBody"
  /\ UNCHANGED <<configured, envVars, supervisorVars>>
  /\ CASE body = "tooLarge" -> Reply(t, rec, "500 payload too large")
       [] body = "empty"    -> Reply(t, rec, "400")
       [] OTHER -> Suspend(t, [rec EXCEPT !.tmp = TRUE], "extract")

\* The sizes of the chunks a request body arrives in.
ChunkSizes == 1..2

\* The size test of readBodyBuffer left out.
ExceedsMaxNever(total) == FALSE

\* readBodyBuffer, line 1145: if (total > maxBytes)
ExceedsMax(total) == total > MaxBodyBytes

\* req.on("data") of readBodyBuffer: a chunk of n units arrives.  Over the
\* limit the promise rejects and the handler's catch answers; else the
\* chunk is kept in memory.
ImportData(t, n) ==
  /\ tasks[t].pc = "readBody"
  /\ tasks[t].total <= MaxBodyBytes
  /\ LET rec == [tasks[t] EXCEPT !.total = @ + n]
     IN IF ExceedsMax(rec.total)
        THEN ImportBodyRead(t, rec, "tooLarge")
        ELSE /\ Suspend(t, rec, "readBody")
             /\ UNCHANGED <<configured, envVars, supervisorVars>>

\* req.on("end") of readBodyBuffer: the promise resolves with the buffer.
ImportEnd(t) ==
  ImportBodyRead(t, tasks[t], IF tasks[t].total = 0 THEN "empty" ELSE "ok")

\* tar.x settled.  extracted: it resolved (else it threw and the catch of
\* line 1205 answers 500); hasCfg: the archive wrote a config file.
ImportExtracted(t, extracted, hasCfg) ==
  /\ tasks[t].pc = "extract"
  /\ configured' = (configured \/ hasCfg)
  /\ cfgContent' = (IF hasCfg THEN 1 ELSE cfgContent)
  /\ UNCHANGED deployVars
  /\ IF ~extracted THEN NoSupervisor(t, tasks[t], "500")
     ELSE LET rec == [tasks[t] EXCEPT !.tmp = FALSE]     \* fs.rmSync(tmpPath)
          IN IF isConfigured(configured')
             THEN RestartGateway(t, rec, configured')
             ELSE NoSupervisor(t, rec, "ok")

\* ------------------------------------------------------- specification
\* The wrapper has just started listening: no gateway process, no start in
\* flight, no request being served (server.js lines 128-129).
Boot ==
  /\ configured \in BOOLEAN
  /\ cfgContent = (IF configured THEN 1 ELSE 0)
  /\ gatewayProc = 0
  /\ gatewayStarting = 0
  /\ starts = 0
  /\ spawned = 0
  /\ procs = [p \in Procs |-> "unspawned"]
  /\ toldOk = FALSE
  /\ tasks = [t \in Tasks |-> IdleTask]
  /\ resp = {}
  /\ sessions = [c \in Cookies |-> NoSession]
  /\ nextState = 1
  /\ lastGate = NoGate
  /\ callbacks = NoCallbacks
  /\ tarEntry = << >>
  /\ tarWrote = << >>
  /\ tarSkipped = FALSE
  /\ dataFiles = [p \in FilePaths |-> 0]
  /\ archive = {}
  /\ page = StaticPage
  /\ tarCwd = << >>
  /\ tarPaths = << >>
  /\ fsOp = "none"
  /\ now = 0
  /\ waitFor = 0
  /\ waitStart = 0
  /\ probe = "none"

\* A deployment on the Railway volume without GitHub OAuth: every request
\* passes the gate and reaches its handler.
Init ==
  /\ authConfigured = FALSE
  /\ STATE_DIR = VolumeStateDir
  /\ WORKSPACE_DIR = VolumeWorkspaceDir
  /\ dirsUnderData = BothUnderData(STATE_DIR, WORKSPACE_DIR)
  /\ history = FALSE
  /\ GITHUB_ALLOWED_USERS = {}
  /\ Boot

\* The same deployment with the history fields recorded.
InitHistory ==
  /\ authConfigured = FALSE
  /\ STATE_DIR = VolumeStateDir
  /\ WORKSPACE_DIR = VolumeWorkspaceDir
  /\ dirsUnderData = BothUnderData(STATE_DIR, WORKSPACE_DIR)
  /\ history = TRUE
  /\ GITHUB_ALLOWED_USERS = {}
  /\ Boot

\* Any deployment.
InitAny ==
  /\ authConfigured \in BOOLEAN
  /\ STATE_DIR \in {VolumeStateDir, HomeStateDir}
  /\ WORKSPACE_DIR = VolumeWorkspaceDir
  /\ dirsUnderData = BothUnderData(STATE_DIR, WORKSPACE_DIR)
  /\ history = FALSE
  /\ GITHUB_ALLOWED_USERS = {}
  /\ Boot

\* The processes, the start promise and the timers.
Background ==
  \/ StartReady
  \/ StartTimeout
  \/ \E p \in Procs : ProcDies(p)
  \/ \E p \in Procs : OnProcExit(p)
  \/ \E p \in Procs : OnProcError(p)

\* The handlers that reach the supervisor, under every interleaving; the
\* proxied requests are those for "/".  The import is in NextImport.
Next ==
  \/ \E t \in Tasks : HttpRequest(t, "GET", << >>, FALSE, FALSE)
  \/ \E t \in Tasks : UpgradeRequest(t, FALSE)
  \/ \E t \in Tasks, c \in ConsoleCmds : ConsoleRun(t, c, FALSE)
  \/ \E t \in Tasks : StopSleepDone(t)
  \/ \E t \in Tasks : RestartSleepDone(t)
  \/ \E t \in Tasks, big \in BOOLEAN : ConfigWrite(t, big, 1, FALSE)
  \/ \E t \in Tasks : Reset(t, FALSE)
  \/ Background

Spec == Init /\ [][Next]_vars

\* The same handlers with the history of the restartGateway() calls.
SpecRestart == InitHistory /\ [][Next]_vars

\* The backup import among the other callers of the supervisor.
NextImport ==
  \/ \E t \in Tasks : ImportRequest(t, FALSE)
  \/ \E t \in Tasks, n \in ChunkSizes : ImportData(t, n)
  \/ \E t \in Tasks : ImportEnd(t)
  \/ \E t \in Tasks, x \in BOOLEAN, c \in BOOLEAN : ImportExtracted(t, x, c)
  \/ \E t \in Tasks : HttpRequest(t, "GET", << >>, FALSE, FALSE)
  \/ \E t \in Tasks : UpgradeRequest(t, FALSE)
  \/ \E t \in Tasks, c \in ConsoleCmds : ConsoleRun(t, c, FALSE)
  \/ \E t \in Tasks : StopSleepDone(t)
  \/ \E t \in Tasks : RestartSleepDone(t)
  \/ \E t \in Tasks, big \in BOOLEAN : ConfigWrite(t, big, 1, FALSE)
  \/ Background

SpecImport == Init /\ [][NextImport]_vars

\* The import handler step by step, with proxied requests in between.
NextRestore ==
  \/ \E t \in Tasks : ImportRequest(t, FALSE)
  \/ \E t \in Tasks, n \in ChunkSizes : ImportData(t, n)
  \/ \E t \in Tasks : ImportEnd(t)
  \/ \E t \in Tasks, x \in BOOLEAN, c \in BOOLEAN : ImportExtracted(t, x, c)
  \/ \E t \in Tasks : StopSleepDone(t)
  \/ \E t \in Tasks : RestartSleepDone(t)
  \/ \E t \in Tasks : HttpRequest(t, "GET", << >>, FALSE, FALSE)
  \/ Background

SpecRestore == Init /\ [][NextRestore]_vars

\* The same with the history of what the import found when it began.
SpecAbort == InitHistory /\ [][NextRestore]_vars

\* A deployment whose directories may lie outside /data, without OAuth.
InitAnyDirs ==
  /\ authConfigured = FALSE
  /\ STATE_DIR \in {VolumeStateDir, HomeStateDir}
  /\ WORKSPACE_DIR = VolumeWorkspaceDir
  /\ dirsUnderData = BothUnderData(STATE_DIR, WORKSPACE_DIR)
  /\ history = FALSE
  /\ GITHUB_ALLOWED_USERS = {}
  /\ Boot

\* The import handler in such a deployment.
SpecRestoreAnyDirs == InitAnyDirs /\ [][NextRestore]_vars

\* The config file under writes of every content and resets.
NextConfig ==
  \/ \E t \in Tasks, big \in BOOLEAN, c \in Contents : ConfigWrite(t, big, c, FALSE)
  \/ \E t \in Tasks : Reset(t, FALSE)
  \/ \E t \in Tasks : RestartSleepDone(t)
  \/ Background

SpecConfig == Init /\ [][NextConfig]_vars

\* Resets between config writes, proxied requests and writes of a file in
\* the state directory and of one in the workspace.
NextReset ==
  \/ \E t \in Tasks : Reset(t, FALSE)
  \/ \E t \in Tasks : ConfigWrite(t, FALSE, 1, FALSE)
  \/ \E t \in Tasks : RestartSleepDone(t)
  \/ \E t \in Tasks : HttpRequest(t, "GET", << >>, FALSE, FALSE)
  \/ \E p \in {<<".", "C", "/", "C">>, <<"C", "/", "C">>} : FileWrite(p, 1)
  \/ Background

SpecReset == Init /\ [][NextReset]_vars

\* The setup run among resets.
NextSetup ==
  \/ \E t \in Tasks : SetupRun(t, FALSE)
  \/ \E t \in Tasks, code0 \in BOOLEAN, c \in 0..MaxContent : OnboardDone(t, code0, c)
  \/ \E t \in Tasks, c \in 0..MaxContent : ConfigSetDone(t, c)
  \/ \E t \in Tasks : Reset(t, FALSE)
  \/ \E t \in Tasks : RestartSleepDone(t)
  \/ Background

SpecSetup == Init /\ [][NextSetup]_vars

\* Restarts and proxied requests with the readiness wait step by step.
NextReady ==
  \/ \E t \in Tasks : ConsoleRun(t, "gateway.restart", FALSE)
  \/ \E t \in Tasks : RestartSleepDone(t)
  \/ \E t \in Tasks : HttpRequest(t, "GET", << >>, FALSE, FALSE)
  \/ WaitBegins
  \/ ProbeAnswered
  \/ ProbeRefused
  \/ ProbeHangs
  \/ ProbeSleepDone
  \/ \E p \in Procs : ProcDies(p)
  \/ \E p \in Procs : OnProcExit(p)
  \/ \E p \in Procs : OnProcError(p)

SpecReady == Init /\ [][NextReady]_vars

\* The proxy surface: every request path, method and session, with the
\* configuration removed or written and the gateway coming and going.
NextProxy ==
  \/ \E t \in Tasks, m \in Methods, path \in HttpPaths, a \in BOOLEAN, u \in BOOLEAN :
        HttpRequest(t, m, path, a, u)
  \/ \E t \in Tasks, path \in LoginPaths, a \in BOOLEAN, u \in BOOLEAN :
        HttpRequest(t, "GET", path, a, u)
  \/ \E t \in Tasks, u \in BOOLEAN : UpgradeRequest(t, u)
  \/ \E t \in Tasks : UpgradeSessionParsed(t)
  \/ \E t \in Tasks, u \in BOOLEAN : Reset(t, u)
  \/ Background

SpecProxy == InitAny /\ [][NextProxy]_vars

\* The login flow and the gate, for every allowlist.
InitAuth ==
  /\ authConfigured \in BOOLEAN
  /\ STATE_DIR = VolumeStateDir
  /\ WORKSPACE_DIR = VolumeWorkspaceDir
  /\ dirsUnderData = BothUnderData(STATE_DIR, WORKSPACE_DIR)
  /\ history = FALSE
  /\ GITHUB_ALLOWED_USERS \in SUBSET {"alice", "mallory"}
  /\ Boot

NextAuth ==
  \/ \E c \in Cookies : AuthGithub(c)
  \/ \E c \in Cookies, code \in BOOLEAN, st \in 0..MaxStates,
        gh \in Logins \cup {"tokenError"} : AuthCallback(c, code, st, gh)
  \/ \E c \in Cookies : AuthLogout(c)
  \/ \E c \in Cookies \cup {0}, path \in HttpPaths, a \in BOOLEAN : GateHttp(c, path, a)
  \/ \E c \in Cookies \cup {0} : GateUpgrade(c)

SpecAuth == InitAuth /\ [][NextAuth]_vars

\* The login flow with the callbacks in two halves, under OAuth.
InitCallback ==
  /\ InitAuth
  /\ authConfigured
  /\ configured

NextCallback ==
  \/ \E c \in Cookies : AuthGithub(c)
  \/ \E c \in Cookies, code \in BOOLEAN, st \in 0..MaxStates :
        AuthCallbackBegin(c, code, st)
  \/ \E k \in 1..MaxTasks, gh \in Logins \cup {"tokenError"} : AuthCallbackEnd(k, gh)
  \/ \E c \in Cookies : AuthLogout(c)

SpecCallback == InitCallback /\ [][NextCallback]_vars

\* The extraction of uploaded archives, entry by entry.
NextTar ==
  \/ \E p \in TarPaths : TarEntry(p)
  \/ TarOpen

\* The import handler reaches tar.x with any configuration; one is taken.
InitTar ==
  /\ Init
  /\ configured = TRUE

SpecTar == InitTar /\ [][NextTar]_vars

\* The files under /data between writers, exports and restores.
NextBackup ==
  \/ \E p \in FilePaths, c \in Contents : FileWrite(p, c)
  \/ \E p \in FilePaths : FileDelete(p)
  \/ Export
  \/ ImportArchive

SpecBackup == InitTar /\ [][NextBackup]_vars

\* The export handler in every deployment: the two directories are any of
\* Dirs.
InitExport ==
  /\ authConfigured = FALSE
  /\ STATE_DIR \in Dirs
  /\ WORKSPACE_DIR \in Dirs
  /\ dirsUnderData = BothUnderData(STATE_DIR, WORKSPACE_DIR)
  /\ history = FALSE
  /\ GITHUB_ALLOWED_USERS = {}
  /\ Boot

NextExport == ExportCall

SpecExport == InitExport /\ [][NextExport]_vars

\* The setup page in the browser, in any deployment.
NextPage ==
  \/ ScriptLoad
  \/ \E choice \in AuthChoices : AuthChoiceChange(choice)
  \/ ToggleSlackClick
  \/ ToggleAdvancedClick

SpecPage == InitAny /\ [][NextPage]_vars

TypeOK ==
  /\ configured \in BOOLEAN
  /\ configured = (cfgContent # 0)
  /\ gatewayProc \in 0..MaxProcs
  /\ gatewayStarting \in 0..MaxProcs
  /\ spawned \in 0..MaxProcs
  /\ toldOk \in BOOLEAN
  /\ tasks = Canon(tasks)
  /\ nextState \in 1..(MaxStates + 1)
  /\ \A c \in Cookies : sessions[c].user \in Logins \cup {""}
  /\ tarSkipped \in BOOLEAN
  /\ dirsUnderData = BothUnderData(STATE_DIR, WORKSPACE_DIR)
  /\ history \in BOOLEAN

\* ================================================================ claims
Awaiting == {t \in Tasks : tasks[t].pc = "awaitStart"}

\* C1: in every reachable state at most one gateway process spawned by the
\* supervisor is alive.
AtMostOneBackendAlive == Cardinality(Alive) <= 1

\* C2: single-flight spawn.  No step spawns a process while a start promise
\* is in flight, and every start promise that is created spawns exactly one
\* process, so the callers attached to one start share one spawn.
SingleFlightSpawn ==
  [][ /\ (gatewayStarting # 0 => spawned' = spawned)
      /\ (starts' # starts =>
            /\ starts' = starts + 1
            /\ spawned' = spawned + 1
            /\ gatewayStarting' = starts')
      /\ (spawned' # spawned => starts' # starts) ]_vars

\* C2 witness: two callers are attached to the one start in flight and one
\* process was spawned.
TwoCallersOneSpawn ==
  /\ Cardinality(Awaiting) >= 2
  /\ gatewayStarting # 0
  /\ spawned = 1

\* C3: the concurrent callers of one start observe the same outcome: when
\* the start fails, no caller of that start has been told success.
SameOutcomeForAllCallers ==
  \A r \in resp : r.ens = "fail" => ~r.early

\* C4: a call of ensureGatewayRunning made while a start is in flight does
\* not return before that start has settled.
ReturnsAfterStartSettles ==
  \A r \in resp : (r.ens # "none" /\ r.during # 0) => gatewayStarting # r.during

\* C5: nothing is forwarded to the gateway unless the configuration check
\* passed for that connection and, when OAuth is configured, the gate let
\* that connection through.
ForwardOnlyAfterChecks ==
  \A r \in resp :
     r.out = "forwarded" => (r.cfgOk /\ (authConfigured => r.authOk))

\* C6 as stated: an upgrade request without a valid session is destroyed
\* and never forwarded, configured or not.
UpgradeWithoutSessionDestroyed ==
  \A r \in resp : (r.kind = "upgrade" /\ ~r.user) => r.out = "destroyed"

\* C6 as amended: when OAuth is configured, an upgrade request without a
\* valid session is destroyed, the supervisor is not called and nothing is
\* forwarded, configured or not.
UpgradeWithoutSessionDestroyedUnderAuth ==
  \A r \in resp :
     (authConfigured /\ r.kind = "upgrade" /\ ~r.user)
        => (r.out = "destroyed" /\ r.ens = "none")

\* C6 witness: the wrapper is configured, OAuth is configured, and an upgrade
\* without a session was destroyed after the session lookup.
UpgradeDestroyedAfterLookup ==
  \E r \in resp :
     /\ authConfigured /\ r.kind = "upgrade" /\ ~r.user
     /\ r.cfgOk /\ r.out = "destroyed"

NoBackendDuringExtraction ==
  \A t \in Tasks :
     (tasks[t].kind = "import" /\ tasks[t].pc = "extract") => Alive = {}

\* The login handle a session stands for: that of its principal, or else
\* the one GitHub reported when the login was refused.
SessionHandle(c) ==
  IF sessions[c].user # "" THEN sessions[c].user ELSE sessions[c].github

OutsideAllowlist(c) ==
  /\ authConfigured
  /\ GITHUB_ALLOWED_USERS # {}
  /\ SessionHandle(c) # ""
  /\ ToLower(SessionHandle(c)) \notin GITHUB_ALLOWED_USERS

\* C8: with a non-empty allowlist, a request whose session belongs to a
\* login outside the allowlist gets the gate outcome of the same request
\* without a session, on the HTTP path and on the upgrade path, and that
\* outcome is never a pass on a path that is not public.
AllowlistedOutAsNoSession ==
  \A c \in Cookies : OutsideAllowlist(c) =>
     /\ UpgradeVerdict(c) = UpgradeVerdict(0)
     /\ UpgradeVerdict(c) # "next"
     /\ \A path \in HttpPaths, a \in BOOLEAN :
           /\ requireAuth(path, a, authConfigured, HasUser(c))
                 = requireAuth(path, a, authConfigured, HasUser(0))
           /\ (~IsPublicPath(path) =>
                 requireAuth(path, a, authConfigured, HasUser(c)) # "next")

\* C8 witness: the gate has just turned away a request that carried the
\* session of a login outside the allowlist.
AllowlistedOutTurnedAway ==
  /\ lastGate.cookie # 0
  /\ OutsideAllowlist(lastGate.cookie)
  /\ lastGate.kind = "http"
  /\ lastGate.out \in {"401", "login"}

\* An absolute entry path: it starts with a separator.
IsAbsolute(p) == p[1] \in {"/", "\\"}

\* A drive-qualified entry path: a drive letter, a colon and a separator.
IsDriveQualified(p) ==
  Len(p) >= 3 /\ p[1] = "C" /\ p[2] = ":" /\ p[3] \in {"/", "\\"}

\* An entry path with a parent-directory segment: two dots between
\* slashes or the ends of the path.
HasParentSegment(p) ==
  \E i \in 1..(Len(p) - 1) :
     /\ p[i] = "." /\ p[i + 1] = "."
     /\ (i = 1 \/ p[i - 1] = "/")
     /\ (i + 1 = Len(p) \/ p[i + 2] = "/")

Traversal(p) == IsAbsolute(p) \/ IsDriveQualified(p) \/ HasParentSegment(p)

UnderDataRoot(target) == Len(target) >= 1 /\ target[1] = <<"data">>

\* C10: an entry whose path is absolute, drive-qualified or has a ".."
\* segment is skipped; no entry is written outside /data; and every other
\* entry is written, whether or not an entry before it was skipped.
TraversalEntriesSkipped ==
  tarEntry # << >> =>
     /\ Traversal(tarEntry) => tarWrote = << >>
     /\ tarWrote # << >> => UnderDataRoot(tarWrote)
     /\ ~Traversal(tarEntry) => tarWrote = ExtractTarget(tarEntry)
     /\ ~Traversal(tarEntry) => UnderDataRoot(tarWrote)

\* C10 witness: after an entry of the archive was skipped, a later entry
\* of the same archive has been written under /data.
SafeEntryWrittenAfterSkip ==
  /\ tarSkipped
  /\ tarEntry # << >>
  /\ ~Traversal(tarEntry)
  /\ UnderDataRoot(tarWrote)
  /\ Len(tarWrote) >= 2

\* C11: an import body over the size limit is answered with the rejection
\* while the handler still reads it: no handler goes on with such a body,
\* and at the rejection no temporary file was written and tar.x, which
\* starts in the step that writes it, was not called.
OversizeImportRejectedUnwritten ==
  /\ \A t \in Tasks :
        tasks[t].kind = "import" => tasks[t].total <= MaxBodyBytes
  /\ \A r \in resp :
        (r.kind = "import" /\ r.total > MaxBodyBytes)
           => (r.out = "500 payload too large" /\ ~r.tmp)

\* C11 witness: an import was rejected for its size after chunks of it had
\* been accepted.
OversizeImportRejected ==
  \E r \in resp :
     /\ r.kind = "import" /\ r.total > MaxBodyBytes
     /\ r.out = "500 payload too large"

RestartNotBlockedPastTimeout ==
  \A t \in Tasks :
     (tasks[t].kind = "restart" /\ tasks[t].pc = "awaitStart"
        /\ waitFor = gatewayStarting)
     => now - waitStart <= TimeoutTicks + 1

\* An answer of the last turn whose ensureGatewayRunning() call returned in
\* the turn it was made in: the start in flight, if any, is as it was.
ReturnedAtOnce(r) == r.ens # "none" /\ r.during = gatewayStarting

\* C14: whenever the handle is set, ensureGatewayRunning() returns success
\* at once, configured or not.
RunningHandleMeansSuccess ==
  \A r \in resp : (ReturnedAtOnce(r) /\ gatewayProc # 0) => r.ens = "ok"

\* C15: with no handle, no start in flight and no configuration, a call of
\* ensureGatewayRunning() returns the "not configured" failure, never
\* success, and no step that ends without a configuration spawns a process.
UnconfiguredEnsureFails ==
  [][ /\ \A r \in resp' :
           (r.ens # "none" /\ ~configured' /\ gatewayProc' = 0
              /\ gatewayStarting = 0 /\ gatewayStarting' = 0)
           => r.ens = "notcfg"
      /\ (~configured' => spawned' = spawned) ]_vars

\* C15 witness: restartGateway(), called with no handle and no
\* configuration, got the failure of its ensureGatewayRunning() call.
RestartToldNotConfigured ==
  \E r \in resp :
     /\ r.kind = "restart" /\ r.ens = "notcfg"
     /\ ~configured /\ gatewayProc = 0 /\ gatewayStarting = 0 /\ spawned = 0

\* C16: when the readiness wait times out, the callers get the failure and
\* the handle is not left set.
TimeoutClearsHandle ==
  \A r \in resp : r.ens = "fail" => gatewayProc = 0

\* C17: gatewayStarting is set exactly while a start is in flight: the
\* readiness wait runs only for the start it names, a start that is named
\* and whose wait began is still probing or sleeping, a settled start is
\* named no more whether it succeeded or failed, and no caller awaits
\* without a start being named.
CoordinatorLivesWhileInFlight ==
  /\ probe # "none" => (gatewayStarting # 0 /\ waitFor = gatewayStarting)
  /\ (gatewayStarting # 0 /\ waitFor = gatewayStarting) => probe # "none"
  /\ \A r \in resp :
        (r.ens \in {"ok", "fail"} /\ ~ReturnedAtOnce(r)) => gatewayStarting = 0
  /\ Awaiting # {} => gatewayStarting # 0

\* C17 witness: a start has just failed by timeout, its callers were told,
\* and gatewayStarting is null again.
FailedStartDiscarded ==
  /\ \E r \in resp : r.ens = "fail" /\ r.during # 0
  /\ gatewayStarting = 0
  /\ probe = "none"
  /\ now - waitStart >= TimeoutTicks

\* C18: the exit or error notification of the process the handle names
\* clears the handle in the same step, and a caller that then comes to await
\* a start, with no handle and no start in flight, has spawned a process.
ExitClearsHandleThenFreshSpawn ==
  [][ /\ \A p \in Procs :
           (gatewayProc = p /\ procs[p] \in {"exited", "spawnerr"}
              /\ procs'[p] = "gone") => gatewayProc' = 0
      /\ (gatewayProc = 0 /\ gatewayStarting = 0
            /\ Cardinality(Awaiting') > Cardinality(Awaiting))
         => (spawned' = spawned + 1 /\ gatewayProc' = spawned'
               /\ gatewayStarting' # 0) ]_vars

\* C18 witness: the first process ended, its notification was handled, and
\* a proxied request has spawned the second, which the handle names.
FreshSpawnAfterExit ==
  /\ procs[1] = "gone"
  /\ gatewayProc = 2
  /\ procs[2] = "alive"
  /\ \E t \in Awaiting : tasks[t].kind = "http"

SleepingRestart == {t \in Tasks : tasks[t].pc = "sleepRestart"}

\* C19: restartGateway() with a handle signals the process and sleeps with
\* the handle kept; after the sleep the handle is cleared (or names a
\* process spawned in that step) and ensureGatewayRunning() is called; with
\* no handle the call is made at once; and the console's restart is never
\* answered without that call.
RestartOrder ==
  [][ /\ Cardinality(SleepingRestart') > Cardinality(SleepingRestart)
         => /\ gatewayProc # 0
            /\ gatewayProc' = gatewayProc
            /\ procs'[gatewayProc] # "alive"
            /\ spawned' = spawned
      /\ Cardinality(SleepingRestart') < Cardinality(SleepingRestart)
         => /\ gatewayProc' = 0 \/ (spawned' = spawned + 1 /\ gatewayProc' = spawned')
            /\ \/ Cardinality(Awaiting') > Cardinality(Awaiting)
               \/ \E r \in resp' : r.ens # "none"
      /\ \A r \in resp' :
            (r.kind = "restart" /\ r.authOk) => r.ens # "none"
      /\ \A r \in resp' :
            (r.kind = "restart" /\ r.authOk /\ r.during = gatewayStarting'
               /\ Cardinality(SleepingRestart') = Cardinality(SleepingRestart))
            => gatewayProc = 0 ]_vars

\* C19 witness: a restart found a running process, signalled it, slept,
\* and its ensureGatewayRunning() call has spawned the next process.
RestartSpawnedAfterSleep ==
  /\ procs[1] \in {"terming", "exited", "gone"}
  /\ gatewayProc = 2
  /\ \E t \in Awaiting : tasks[t].kind = "restart"

\* C20: a request or upgrade is forwarded on the strength of an
\* ensureGatewayRunning() call only when no start is in flight any more.
ForwardedOnlyWhenReady ==
  \A r \in resp :
     (r.kind \in {"http", "upgrade"} /\ r.out = "forwarded" /\ r.ens # "none")
        => gatewayStarting = 0

\* C21: a proxied HTTP request that arrived in the configured state and whose
\* ensureGatewayRunning() call did not succeed is answered 503 and is not
\* forwarded; the call of such a request never returns "not configured",
\* so every failure it sees is a thrown error with its reason.
FailedEnsureAnswers503 ==
  \A r \in resp :
     (r.kind = "http" /\ r.cfgOk /\ r.ens \notin {"none", "ok"})
        => (r.out = "503" /\ r.ens = "fail")

\* C21 witness: a proxied request of a configured wrapper passed the gate,
\* awaited a start that failed, and was answered 503.
ProxiedRequestGot503 ==
  \E r \in resp :
     /\ r.kind = "http" /\ r.cfgOk /\ r.authOk
     /\ r.ens = "fail" /\ r.during # 0 /\ r.out = "503"

AuthenticatedUpgradeReachesEnsure ==
  \A r \in resp :
     (authConfigured /\ r.kind = "upgrade" /\ r.user /\ r.cfgOk /\ configured)
        => ~(r.out = "destroyed" /\ r.ens = "none")

\* The class of a request path: public (login page, OAuth start and
\* callback, health check), api (under /setup/api/) or page.
PathClass(path) ==
  IF path \in { <<"auth", "login">>, <<"auth", "github">>,
                <<"auth", "github", "callback">>, <<"setup", "healthz">> }
  THEN "public"
  ELSE IF Len(path) >= 3 /\ path[1] = "setup" /\ path[2] = "api" THEN "api"
  ELSE "page"

\* The class of a request: that of its path, but a request outside the
\* public paths that accepts application/json is an api request.
RequestClass(path, json) ==
  IF PathClass(path) = "page" /\ json THEN "api" ELSE PathClass(path)

\* The answer r is that of the gate for a request of the given class: a
\* public request passes; with OAuth configured and no user in the session,
\* an api request gets 401 and a page request the redirect to /auth/login,
\* and neither a route, the supervisor nor the proxy is reached.
GateAnswersByClass(r, class) ==
  /\ class = "public" => r.authOk
  /\ (class # "public" /\ authConfigured /\ ~r.user) =>
        /\ r.out = (IF class = "api" THEN "401" ELSE "login")
        /\ ~r.authOk
        /\ r.ens = "none"

\* C24 as stated: the decision of the gate follows the class of the path.
GateDecidesByPathClass ==
  \A r \in resp : r.kind = "http" => GateAnswersByClass(r, PathClass(r.path))

\* C24 as amended: the decision of the gate follows the class of the
\* request, which is api also when the Accept header names application/json.
GateDecidesByRequestClass ==
  \A r \in resp :
     r.kind = "http" => GateAnswersByClass(r, RequestClass(r.path, r.json))

\* C24 witness: with OAuth configured, a request for "/" without a session
\* that accepts JSON has been answered 401.
PageJsonRequestGot401 ==
  \E r \in resp :
     /\ authConfigured /\ r.kind = "http" /\ r.path = << >> /\ ~r.user
     /\ r.json /\ r.out = "401" /\ r.ens = "none"

RefusedImportTouchesNothing ==
  [][ ~dirsUnderData =>
        /\ \A t \in Tasks : tasks'[t].kind # "import"
        /\ \A r \in resp' :
              r.kind = "import" =>
                 /\ r.out = "400" /\ ~r.tmp /\ r.total = 0 /\ r.ens = "none"
                 /\ procs' = procs
                 /\ gatewayProc' = gatewayProc
                 /\ gatewayStarting' = gatewayStarting
                 /\ configured' = configured
                 /\ UNCHANGED diskVars ]_vars

\* C26 witness: with a directory outside /data and the gateway running, an
\* import has been refused and the gateway still runs under its handle.
ImportRefusedGatewayRuns ==
  /\ ~dirsUnderData
  /\ \E r \in resp : r.kind = "import" /\ r.out = "400" /\ r.total = 0
  /\ gatewayProc # 0
  /\ procs[gatewayProc] = "alive"

\* C27: an import that is answered has left no temporary archive file.
TempFileRemovedAtCompletion ==
  \A r \in resp : r.kind = "import" => ~r.tmp

\* An answered import whose body was accepted: it wrote the temporary file
\* and its tar.x call has settled.
ExtractionEnded(r) == r.kind = "import" /\ r.total \in 1..MaxBodyBytes

\* C28: an import whose extraction has ended, completed or not, with a
\* configuration then present, is not answered without a call of
\* ensureGatewayRunning().
ImportResumesConfiguredBackend ==
  \A r \in resp : (ExtractionEnded(r) /\ configured) => r.ens # "none"

\* An answer of POST /setup/api/console/run that got past the gate.
ConsoleAnswer(r) ==
  r.kind \in {"restart", "stop", "start", "console"} /\ r.authOk

\* C29: a console command whose name is outside the allowlist is answered
\* "Command not allowed" in the turn it arrives in, and that turn spawns no
\* process, signals none and leaves the handle and the start in flight as
\* they were; no command outside the allowlist is ever suspended.
UnlistedCommandRejected ==
  [][ /\ \A r \in resp' :
           (ConsoleAnswer(r) /\ r.cmd \notin ALLOWED_CONSOLE_COMMANDS) =>
              /\ r.out = "notAllowed" /\ r.ens = "none"
              /\ spawned' = spawned
              /\ procs' = procs
              /\ gatewayProc' = gatewayProc
              /\ gatewayStarting' = gatewayStarting
      /\ \A t \in Tasks :
           tasks'[t].kind \in {"restart", "stop", "start", "console"}
              => tasks'[t].cmd \in ALLOWED_CONSOLE_COMMANDS ]_vars

\* C29 witness: with the gateway running, a command outside the allowlist
\* has been rejected and the gateway still runs under its handle.
UnlistedRejectedGatewayRuns ==
  /\ \E r \in resp :
        ConsoleAnswer(r) /\ r.cmd = "rm -rf" /\ r.out = "notAllowed"
  /\ gatewayProc # 0
  /\ procs[gatewayProc] = "alive"

\* The handlers of a raw-config write that are in flight in the table f.
ConfigWrites(f) == {t \in Tasks : f[t].kind = "configWrite"}

\* C30: a raw-config write that is accepted leaves the file with new
\* contents, has copied to its backup the contents the file had before (and
\* made no copy when there was no file), and has called restartGateway()
\* with the new file in place: a running gateway was signalled, and with no
\* gateway and no start in flight one was spawned, which needs the file.  An
\* oversized write is answered 413 and changes neither the file, the
\* backups, the processes nor the handle.
ConfigWriteInOrder ==
  [][ /\ Cardinality(ConfigWrites(tasks')) > Cardinality(ConfigWrites(tasks)) =>
           /\ configured' /\ cfgContent' # 0
           /\ \E t \in ConfigWrites(tasks') :
                 /\ tasks'[t].bak = cfgContent
                 /\ tasks'[t].pc \in {"sleepRestart", "awaitStart"}
           /\ gatewayProc # 0 => procs'[gatewayProc] # "alive"
           /\ (gatewayProc = 0 /\ gatewayStarting = 0) => spawned' = spawned + 1
      /\ \A r \in resp' :
           (r.kind = "configWrite" /\ r.out = "413") =>
              /\ r.bak = 0 /\ r.ens = "none"
              /\ cfgContent' = cfgContent
              /\ configured' = configured
              /\ procs' = procs
              /\ spawned' = spawned
              /\ gatewayProc' = gatewayProc
              /\ gatewayStarting' = gatewayStarting
              /\ Cardinality(ConfigWrites(tasks')) = Cardinality(ConfigWrites(tasks)) ]_vars

\* C30 witness: a write has replaced contents by other contents, holds the
\* replaced ones in its backup, and sleeps in restartGateway() after it
\* signalled the running gateway.
ConfigOverwrittenWithBackup ==
  \E t \in ConfigWrites(tasks) :
     /\ tasks[t].bak # 0
     /\ tasks[t].bak # cfgContent
     /\ tasks[t].pc = "sleepRestart"
     /\ gatewayProc # 0
     /\ procs[gatewayProc] # "alive"

\* C31: a reset that reaches its handler removes the config file and
\* nothing else: afterwards the wrapper is not configured, and the files
\* under /data, the handle, the start in flight, the processes, the
\* suspended handlers and the sessions are as they were (a write under
\* /data by someone else keeps the answers of the turn before it).
ResetRemovesOnlyConfig ==
  [][ \A r \in resp' \ resp :
        (r.kind = "reset" /\ r.authOk) =>
           /\ ~configured' /\ cfgContent' = 0
           /\ dataFiles' = dataFiles
           /\ gatewayProc' = gatewayProc
           /\ gatewayStarting' = gatewayStarting
           /\ procs' = procs
           /\ spawned' = spawned
           /\ tasks' = tasks
           /\ sessions' = sessions ]_vars

\* C31 witness: a reset has just removed the configuration while files
\* exist in both directories, a gateway runs under the handle and a start
\* is in flight.
ResetDuringStart ==
  /\ \E r \in resp : r.kind = "reset" /\ r.out = "ok"
  /\ ~configured
  /\ \A p \in {<<".", "C", "/", "C">>, <<"C", "/", "C">>} : dataFiles[p] # 0
  /\ gatewayProc # 0
  /\ procs[gatewayProc] = "alive"
  /\ gatewayStarting # 0

\* The setup runs of the table f that arrived at a configured wrapper.
ConfiguredSetupRuns(f) ==
  {t \in Tasks : f[t].kind = "setupRun" /\ f[t].cfgOk}

ExportedPathsSafe ==
  \A i \in 1..Len(tarPaths) :
     LET p == tarPaths[i]
     IN /\ p # << >>
        /\ ~Traversal(p)
        /\ looksSafeTarPath(p)
        /\ looksSafeTarPath(p \o <<"/", "C">>)

\* C34: the script never calls insertBefore for the advanced toggle with
\* the parent of the provider select as the reference node, and no DOM
\* exception ends it: the toggle stays where the markup put it.
ToggleNeverInsertedBeforeParent ==
  /\ \A i \in 1..Len(page.calls) :
        ~(/\ page.calls[i].node = "toggleAdvanced"
          /\ page.calls[i].ref = ParentNode(StaticTree, "authChoice"))
  /\ ~page.error
  /\ ParentNode(PageTree, "toggleAdvanced") = "wrap"

\* C34 witness: the script has run and the advanced toggle was clicked.
AdvancedToggleOpened ==
  /\ page.loaded
  /\ page.advancedOpen
  /\ AdvancedText(page.advancedOpen) = "Hide advanced tools"

\* C35: the exit or error notification of a process other than the one the
\* handle names leaves the handle as it is: the late exit of a replaced
\* process does not clear the handle of its successor.
LateExitKeepsNewerHandle ==
  [][ \A p \in Procs :
        (/\ procs[p] \in {"exited", "spawnerr"}
         /\ procs'[p] = "gone"
         /\ gatewayProc # 0
         /\ gatewayProc # p) => gatewayProc' = gatewayProc ]_vars

\* C36: a restartGateway() call that returns { ok: true } with the
\* configuration present leaves the handle naming a live process that was
\* spawned after the call began.
RestartSuccessHasFreshBackend ==
  [][ \A r \in resp' :
        (r.since >= 0 /\ r.ens = "ok" /\ configured')
          => /\ gatewayProc' # 0
             /\ gatewayProc' \in Alive'
             /\ gatewayProc' > r.since ]_vars

\* C37: for the same cookie and the same session store the upgrade path
\* lets a request through exactly when requireAuth lets a proxied HTTP
\* request with that cookie through.
UpgradeVerdictEqualsGateVerdict ==
  lastGate.kind = "upgrade" =>
    ((lastGate.out = "next")
       <=> (requireAuth(<< >>, FALSE, authConfigured, HasUser(lastGate.cookie))
              = "next"))

\* A callback passes the state test in this step: it is the last of those
\* in flight afterwards.
CallbackAccepted ==
  Len(callbacks'.inflight) = Len(callbacks.inflight) + 1

\* The callback k in flight, of the session of cookie c, ends in this step.
CallbackEnds(k, c) ==
  /\ k \in 1..Len(callbacks.inflight)
  /\ callbacks.inflight[k].cookie = c
  /\ callbacks'.inflight = RemoveAt(callbacks.inflight, k)

\* C38: a session gets a user only at the end of a callback of that session
\* whose state matched the pending one and whose login the allowlist lets
\* in, and no state value passes the state test twice for a session.
PrincipalOnlyByFreshStateCallback ==
  [][ /\ \A c \in Cookies :
           (sessions'[c].user # "" /\ sessions'[c].user # sessions[c].user)
             => /\ \E k \in 1..MaxTasks :
                      /\ CallbackEnds(k, c)
                      /\ <<c, callbacks.inflight[k].state>> \in callbacks.accepted
                /\ ~AllowlistDenies(sessions'[c].user)
      /\ CallbackAccepted
           => LET cb == callbacks'.inflight[Len(callbacks'.inflight)]
              IN <<cb.cookie, cb.state>> \notin callbacks.accepted ]_vars

\* An answered import that ended before tar.x because its body was empty
\* or over the limit.
AbortedBeforeExtraction(r) ==
  /\ r.kind = "import"
  /\ r.authOk
  /\ r.out \in {"400", "500 payload too large"}

\* C39: an import that ends before the extraction, its body empty or too
\* large, and that found a running gateway when it began, is not answered
\* with the handle cleared or the process stopped.
AbortedImportKeepsBackend ==
  \A r \in resp :
     (AbortedBeforeExtraction(r) /\ r.ran)
        => (gatewayProc # 0 /\ gatewayProc \in Alive)

====
